---- MODULE Spec2Model ----
(***************************************************************************)
(* Model of the Medial dashboard (src/app.py, src/utils.py): the topic     *)
(* dataset held by the Medial object, the graph pipeline                   *)
(* generate_data -> parse_data -> callback_size_nodes, and the two Dash    *)
(* callbacks that run it.                                                  *)
(*                                                                         *)
(* Representation.  A Python string is a TLA+ string; Chars gives its       *)
(* characters, so that re.sub / lower / strip are computed character by    *)
(* character.  None and the float nan that DataFrame.explode puts in for   *)
(* an empty list are the values None and NaN below, which are no search    *)
(* text and no topic name.  a + b on strings is the sequence <<a, b>> of   *)
(* the parts.  The log-scaled counters of the dataset                      *)
(* are kept in tenths (5 stands for 0.5).  A node size is the exact        *)
(* fraction num/den; den = 0 is what IEEE arithmetic gives for a division  *)
(* by zero (num = 0: nan, otherwise an infinity).                          *)
(***************************************************************************)
EXTENDS Integers, Sequences, FiniteSets

VARIABLES
    df,            \* Medial.df: the dataset, a sequence of topic rows
    hashseed,      \* the process's string-hash seed: fixes list(set) order
    table,         \* Medial.table: preprocess_data(df)
    data,          \* Medial.data: the stored graph payload
    scaling_vars,  \* Medial.scaling_vars: the stored scaling bounds
    gen,           \* what the last generate_data call of a handler returned
    parsed,        \* what the last parse_data call returned, and for which query
    ret            \* the last handler invocation: its inputs and its outcome

vars == <<df, hashseed, table, data, scaling_vars, gen, parsed, ret>>

----------------------------------------------------------------------------
(* Bounds of the model *)

MaxRows == 3
MaxRelated == 1

(* Configuration constants.  config.py is not among the sources: MIN and    *)
(* MAX are the values of the specification's rescale example,              *)
(* DEFAULT_NODE_SIZE is some fixed value.                                  *)

MIN_NODE_SIZE == 10
MAX_NODE_SIZE == 50
DEFAULT_NODE_SIZE == 7

----------------------------------------------------------------------------
(* Values *)

None == "<None>"
NaN == "<NaN>"

Life == "Life"
life == "life"
SciFi == "Sci-Fi"
sci_fi == "sci fi"
Art == "Art"
Zen == "Zen"
EmptyStr == ""

\* the characters of a string
Chars(s) ==
    CASE s = "Life" -> <<"L", "i", "f", "e">>
      [] s = "life" -> <<"l", "i", "f", "e">>
      [] s = "Sci-Fi" -> <<"S", "c", "i", "-", "F", "i">>
      [] s = "sci fi" -> <<"s", "c", "i", " ", "f", "i">>
      [] s = "Art" -> <<"A", "r", "t">>
      [] s = "Zen" -> <<"Z", "e", "n">>
      [] s = "" -> << >>

\* Topic names of the dataset, by row; Zen is a related topic that has no row.
TopicPool == <<Life, SciFi, sci_fi, Art>>

\* What the search box can hold.
SearchTexts == {None, EmptyStr, Life, life, SciFi, sci_fi, Zen}

\* The dropdown: Medial.size_topics_by, or None when nothing is selected.
NumberOfStories == "Number of stories"
NumberOfWriters == "Number of writers"
SizeTopicsBy == {None, NumberOfStories, NumberOfWriters}

\* str.split(): the words of a label
split(s) ==
    CASE s = "Number of stories" -> <<"Number", "of", "stories">>
      [] s = "Number of writers" -> <<"Number", "of", "writers">>

Range(s) == {s[i] : i \in 1..Len(s)}

Min2(a, b) == IF a <= b THEN a ELSE b

----------------------------------------------------------------------------
(* Strings: re.sub("[^0-9a-zA-Z]+", " ", s).lower().strip() *)

LowerOf ==
    [A |-> "a", B |-> "b", C |-> "c", D |-> "d", E |-> "e", F |-> "f",
     G |-> "g", H |-> "h", I |-> "i", J |-> "j", K |-> "k", L |-> "l",
     M |-> "m", N |-> "n", O |-> "o", P |-> "p", Q |-> "q", R |-> "r",
     S |-> "s", T |-> "t", U |-> "u", V |-> "v", W |-> "w", X |-> "x",
     Y |-> "y", Z |-> "z"]

Digits == {"0", "1", "2", "3", "4", "5", "6", "7", "8", "9"}

UpperCase == DOMAIN LowerOf

LowerCase == {LowerOf[u] : u \in UpperCase}

\* the class [0-9a-zA-Z]
AlnumChars == Digits \cup UpperCase \cup LowerCase

IsAlnum(c) == c \in AlnumChars

RECURSIVE SkipRun(_)
SkipRun(s) ==
    IF s = << >> THEN << >>
    ELSE IF IsAlnum(Head(s)) THEN s
    ELSE SkipRun(Tail(s))

\* every run of characters outside the class becomes one space
RECURSIVE re_sub(_)
re_sub(s) ==
    IF s = << >> THEN << >>
    ELSE IF IsAlnum(Head(s)) THEN <<Head(s)>> \o re_sub(Tail(s))
    ELSE <<" ">> \o re_sub(SkipRun(Tail(s)))

RECURSIVE lower(_)
lower(s) ==
    IF s = << >> THEN << >>
    ELSE <<IF Head(s) \in DOMAIN LowerOf THEN LowerOf[Head(s)] ELSE Head(s)>>
         \o lower(Tail(s))

RECURSIVE lstrip(_)
lstrip(s) ==
    IF s = << >> THEN << >>
    ELSE IF Head(s) = " " THEN lstrip(Tail(s))
    ELSE s

RECURSIVE rstrip(_)
rstrip(s) ==
    IF s = << >> THEN << >>
    ELSE IF s[Len(s)] = " " THEN rstrip(SubSeq(s, 1, Len(s) - 1))
    ELSE s

strip(s) == rstrip(lstrip(s))

\* the strings of the model (topic names and search texts), normalised once
Strings == Range(TopicPool) \cup (SearchTexts \ {None}) \cup {Zen}

Normalised == [s \in Strings |-> strip(lower(re_sub(Chars(s))))]

clean(s) == Normalised[s]

\* astype(str): nan becomes the string "nan", a string stays itself
astype_str(x) == IF x = NaN THEN "nan" ELSE x

----------------------------------------------------------------------------
(* preprocess_data *)

\* np.exp(x).round() on the counters of the model, x in tenths:
\* e^0 = 1, e^0.5 = 1.65, e^0.7 = 2.01, e^1 = 2.72
exp_round(x) ==
    CASE x = 0 -> 1
      [] x = 5 -> 2
      [] x = 7 -> 2
      [] x = 10 -> 3

TableRow(r) ==
    [Topics |-> r.topic, Stories |-> exp_round(r.stories),
     Writers |-> exp_round(r.writers)]

Perms(n) ==
    {p \in [1..n -> 1..n] : \A i, j \in 1..n : i # j => p[i] # p[j]}

\* (variant: ascending left at its default, True)
sort_values_asc(rows) ==
    {[i \in 1..Len(rows) |-> rows[p[i]]] : p \in
        {q \in Perms(Len(rows)) :
            \A i \in 1..(Len(rows) - 1) :
                rows[q[i]].Stories <= rows[q[i + 1]].Stories}}

\* sort_values("stories", ascending=False) with the default kind, quicksort,
\* which is not stable: rows come out in non-increasing order of the key and
\* rows with equal keys in any order.
sort_values_desc(rows) ==
    {[i \in 1..Len(rows) |-> rows[p[i]]] : p \in
        {q \in Perms(Len(rows)) :
            \A i \in 1..(Len(rows) - 1) :
                rows[q[i]].Stories >= rows[q[i + 1]].Stories}}

\* the set of tables preprocess_data can return
preprocess_data(d) ==
    sort_values_desc([i \in 1..Len(d) |-> TableRow(d[i])])

----------------------------------------------------------------------------
(* generate_data *)

NoneNone == [kind |-> "none", edges |-> << >>, nodes |-> << >>, error |-> ""]

Raise(e) == [kind |-> "raise", edges |-> << >>, nodes |-> << >>, error |-> e]

\* DataFrame.explode(column="related_topics"): one row per list entry, in
\* order; a row whose list is empty keeps one row holding nan
RECURSIVE explode(_)
explode(rows) ==
    IF rows = << >> THEN << >>
    ELSE LET r == Head(rows)
             cells ==
                 IF r.related_topics = << >> THEN << <<r.topic, NaN>> >>
                 ELSE [j \in 1..Len(r.related_topics) |->
                          <<r.topic, r.related_topics[j]>>]
         IN  cells \o explode(Tail(rows))

\* .apply(set, axis=1)
apply_set(rows) == [i \in 1..Len(rows) |-> {rows[i][1], rows[i][2]}]

\* (variant: no .drop_duplicates() in the chain)
drop_duplicates_omitted(s) == s

\* Series.drop_duplicates(): the first occurrence of each value is kept
RECURSIVE drop_duplicates(_)
drop_duplicates(s) ==
    IF s = << >> THEN << >>
    ELSE LET init == drop_duplicates(SubSeq(s, 1, Len(s) - 1))
             last == s[Len(s)]
         IN  IF last \in Range(init) THEN init ELSE Append(init, last)

\* The slot a value's hash gives it in a set's table.  The hash of a string
\* depends on the process's hash seed; the model has two seeds, giving the
\* two opposite orders.
HashOrder == TopicPool \o <<Zen, NaN>>

HashRank ==
    [x \in Range(HashOrder) |-> CHOOSE i \in 1..Len(HashOrder) : HashOrder[i] = x]

Slot(x) == IF hashseed = 0 THEN HashRank[x] ELSE 0 - HashRank[x]

\* list(s) for a set s: its elements in slot order
RECURSIVE set_to_list(_)
set_to_list(s) ==
    IF s = {} THEN << >>
    ELSE LET x == CHOOSE y \in s : \A z \in s : Slot(y) <= Slot(z)
         IN  <<x>> \o set_to_list(s \ {x})

\* Series.str.get(i), i counted from 1 here: the i-th element of each list,
\* nan where the list is shorter
str_get(lists, i) ==
    [k \in 1..Len(lists) |-> IF Len(lists[k]) >= i THEN lists[k][i] ELSE NaN]

\* iterating Series.str (StringMethods.__iter__): get(0), get(1), ... up to
\* the first column that holds nothing but nan
RECURSIVE str_iter(_, _)
str_iter(lists, i) ==
    LET g == str_get(lists, i)
    IN  IF \A k \in 1..Len(lists) : g[k] = NaN THEN << >>
        ELSE <<g>> \o str_iter(lists, i + 1)

generate_data(d, selected_topic) ==
    IF selected_topic = EmptyStr \/ selected_topic = None THEN NoneNone
    ELSE
    LET clean_selected_topic == clean(selected_topic)
        clean_topics == [i \in 1..Len(d) |-> clean(d[i].topic)]
        matches == {i \in 1..Len(d) : clean_topics[i] = clean_selected_topic}
    IN
    IF matches = {} THEN NoneNone
    \* Series.item() on anything but one element
    ELSE IF Cardinality(matches) # 1 THEN Raise("ValueError")
    ELSE
    LET related_topics == d[CHOOSE i \in matches : TRUE].related_topics
        keys == Range(related_topics) \cup {selected_topic}
        InFilter(r) == r.topic \in keys
        df_graph == drop_duplicates(apply_set(explode(SelectSeq(d, InFilter))))
    IN
    \* nothing passes the filter: there is nothing to take .str of or to unite
    IF df_graph = << >> THEN Raise("AttributeError")
    ELSE
    LET lists == [k \in 1..Len(df_graph) |-> set_to_list(df_graph[k])]
        columns == str_iter(lists, 1)
    IN
    \* edges["from"], edges["to"] = ... unpacks exactly two columns
    IF Len(columns) # 2 THEN Raise("ValueError")
    ELSE
    LET names == UNION Range(df_graph)
        InNodes(r) == r.topic \in names
        rows == SelectSeq(d, InNodes)
    IN  [kind |-> "graph",
         edges |-> [k \in 1..Len(lists) |->
                       [from |-> columns[1][k], to |-> columns[2][k]]],
         nodes |-> [k \in 1..Len(rows) |->
                       [id |-> rows[k].topic, stories |-> rows[k].stories,
                        writers |-> rows[k].writers]],
         error |-> ""]

\* (variant: .drop("related_topics", axis=1, inplace=True) on df itself)
df_after_inplace_drop(d, selected_topic) ==
    [i \in 1..Len(d) |-> [d[i] EXCEPT !.related_topics = << >>]]

\* What a call leaves in the frame it was given: generate_data only reads df
\* (.loc, .explode, .drop and .rename all return new frames).
df_after_generate_data(d, selected_topic) == d

----------------------------------------------------------------------------
(* compute_scaling_vars_for_numerical_cols, parse_data *)

MinOf(S) == CHOOSE x \in S : \A y \in S : x <= y

MaxOf(S) == CHOOSE x \in S : \A y \in S : x >= y

\* numeric_cols: the columns of the frame that select_dtypes finds numeric
compute_scaling_vars_for_numerical_cols(rows, numeric_cols) ==
    [col \in numeric_cols |->
        [min |-> MinOf({rows[k][col] : k \in 1..Len(rows)}),
         max |-> MaxOf({rows[k][col] : k \in 1..Len(rows)})]]

Size(n, d) == [num |-> n, den |-> d]

\* parse_data(edge_df, node_df) with a node frame, as both callers pass one.
\* The node frame of generate_data has the columns id, stories, writers: no
\* node_image_url, so every node is a dot; the edge frame has the string
\* columns from and to only, so it has no numeric column.
parse_data(edge_df, node_df) ==
    LET edges_str == [k \in 1..Len(edge_df) |->
                         [from |-> astype_str(edge_df[k].from),
                          to |-> astype_str(edge_df[k].to)]]
        nodes_str == [k \in 1..Len(node_df) |->
                         [node_df[k] EXCEPT !.id = astype_str(@)]]
    IN  [data |->
            [nodes |-> [k \in 1..Len(nodes_str) |->
                           [id |-> nodes_str[k].id,
                            stories |-> nodes_str[k].stories,
                            writers |-> nodes_str[k].writers,
                            label |-> nodes_str[k].id,
                            shape |-> "dot",
                            size |-> Size(DEFAULT_NODE_SIZE, 1)]],
             edges |-> [k \in 1..Len(edges_str) |->
                           [from |-> edges_str[k].from,
                            to |-> edges_str[k].to,
                            id |-> <<edges_str[k].from, "__", edges_str[k].to>>,
                            color |-> [color |-> "#97C2FC"]]]],
         scaling_vars |->
            [node |-> compute_scaling_vars_for_numerical_cols(
                          nodes_str, {"stories", "writers"}),
             edge |-> compute_scaling_vars_for_numerical_cols(edges_str, {})]]

----------------------------------------------------------------------------
(* Medial *)

\* callback_search_graph: the new graph and its bounds when the topic is
\* found, the stored pair otherwise; raised when generate_data raises
callback_search_graph(d, search_text) ==
    LET g == generate_data(d, search_text)
    IN  IF g.kind = "raise"
        THEN [raised |-> TRUE, data |-> data, scaling_vars |-> scaling_vars]
        ELSE IF g.kind = "graph"
        THEN LET p == parse_data(g.edges, g.nodes)
             IN  [raised |-> FALSE, data |-> p.data,
                  scaling_vars |-> p.scaling_vars]
        ELSE [raised |-> FALSE, data |-> data, scaling_vars |-> scaling_vars]

\* (value - min) * scaling + MIN_NODE_SIZE with
\* scaling = (MAX_NODE_SIZE - MIN_NODE_SIZE) / (max - min), as one fraction.
\* The bounds are numpy scalars: dividing by their zero difference raises
\* nothing and gives inf, and 0 * inf is nan.
scaled_size(value, min_size, max_size) ==
    IF max_size = min_size
    THEN Size(IF value = min_size THEN 0
              ELSE IF value > min_size THEN 1 ELSE 0 - 1, 0)
    ELSE Size((value - min_size) * (MAX_NODE_SIZE - MIN_NODE_SIZE)
                  + MIN_NODE_SIZE * (max_size - min_size),
              max_size - min_size)

\* (variant: nothing done when no attribute is selected)
callback_size_nodes_no_reset(data_, scaling_vars_, size_topics_by) ==
    IF size_topics_by # None
    THEN LET method == split(size_topics_by)[Len(split(size_topics_by))]
             max_size == scaling_vars_["node"][method]["max"]
             min_size == scaling_vars_["node"][method]["min"]
         IN  [data_ EXCEPT !.nodes =
                 [k \in 1..Len(data_.nodes) |->
                     [data_.nodes[k] EXCEPT !.size =
                         scaled_size(data_.nodes[k][method], min_size, max_size)]]]
    ELSE data_

callback_size_nodes(data_, scaling_vars_, size_topics_by) ==
    IF size_topics_by # None
    THEN LET method == split(size_topics_by)[Len(split(size_topics_by))]
             max_size == scaling_vars_["node"][method]["max"]
             min_size == scaling_vars_["node"][method]["min"]
         IN  [data_ EXCEPT !.nodes =
                 [k \in 1..Len(data_.nodes) |->
                     [data_.nodes[k] EXCEPT !.size =
                         scaled_size(data_.nodes[k][method], min_size, max_size)]]]
    ELSE [data_ EXCEPT !.nodes =
             [k \in 1..Len(data_.nodes) |->
                 [data_.nodes[k] EXCEPT !.size = Size(DEFAULT_NODE_SIZE, 1)]]]

Message(text, topic, count) == [text |-> text, topic |-> topic, count |-> count]

\* (variant: the elif tests search_text == "" only)
update_total_related_topics_empty_only(search_text, g) ==
    IF g.kind = "graph"
    THEN Message("Total number of related topics", search_text, Len(g.nodes) - 1)
    ELSE IF search_text = EmptyStr
    THEN Message("Type a topic you want to find.", None, 0)
    ELSE Message("Topic not found.", None, 0)

\* the text update_total_related_topics answers for a generate_data result
update_total_related_topics(search_text, g) ==
    IF g.kind = "graph"
    THEN Message("Total number of related topics", search_text, Len(g.nodes) - 1)
    ELSE IF search_text = None \/ search_text = EmptyStr
    THEN Message("Type a topic you want to find.", None, 0)
    ELSE Message("Topic not found.", None, 0)

NoMessage == Message("", None, 0)

\* A handler's invocation.  What setting_pane_callback returns is the object
\* it stores in Medial.data, so the value of a returned call is data itself;
\* message is what update_total_related_topics returned.
Returned(handler, search_text, size_topics_by, message) ==
    [handler |-> handler, search_text |-> search_text,
     size_topics_by |-> size_topics_by, status |-> "returned",
     error |-> "", message |-> message]

Raised(handler, search_text, size_topics_by, error) ==
    [handler |-> handler, search_text |-> search_text,
     size_topics_by |-> size_topics_by, status |-> "raised",
     error |-> error, message |-> NoMessage]

----------------------------------------------------------------------------
(* The datasets of the model *)

HashSeeds == {0, 1}

NRows == 1..Min2(MaxRows, Len(TopicPool))

\* the entries of c at the positions S, in order
Pick(c, S) ==
    LET F[i \in 0..Len(c)] ==
            IF i = 0 THEN << >>
            ELSE IF i \in S THEN Append(F[i - 1], c[i]) ELSE F[i - 1]
    IN  F[Len(c)]

\* related_topics lists of a dataset of n rows: up to MaxRelated of its own
\* topics and the absent topic Zen
RelatedLists(n) ==
    LET c == SubSeq(TopicPool, 1, n) \o <<Zen>>
    IN  {Pick(c, S) : S \in {T \in SUBSET (1..Len(c)) : Cardinality(T) <= MaxRelated}}

\* <<stories, writers>> in tenths
BaseCounters == << <<0, 5>>, <<5, 5>>, <<10, 0>>, <<7, 5>> >>
Counters == { <<0, 5>>, <<5, 5>>, <<7, 0>> }

Row(i, counters, related) ==
    [topic |-> TopicPool[i], stories |-> counters[1], writers |-> counters[2],
     related_topics |-> related]

\* every choice of related_topics lists, with fixed counters
RichRelations ==
    UNION {{[i \in 1..n |-> Row(i, BaseCounters[i], rel[i])] :
               rel \in [1..n -> RelatedLists(n)]} : n \in NRows}

\* every choice of counters, with one related_topics list for all rows
RichCounters ==
    UNION {{[i \in 1..n |-> Row(i, c[i], rel)] :
               c \in [1..n -> Counters], rel \in RelatedLists(n)} : n \in NRows}

Datasets == RichRelations \cup RichCounters

----------------------------------------------------------------------------
(* Medial.__init__ and the callbacks *)

\* The state after medial = Medial(): generate_data(self.df) runs with the
\* default selected_topic "Life".  A dataset for which it returns no graph
\* makes the constructor fail, so no callback ever runs on it.
Init ==
    /\ df \in Datasets
    /\ hashseed \in HashSeeds
    /\ generate_data(df, Life).kind = "graph"
    /\ table \in preprocess_data(df)
    /\ gen = generate_data(df, Life)
    /\ parsed = [search_text |-> Life,
                 data |-> parse_data(gen.edges, gen.nodes).data,
                 scaling_vars |-> parse_data(gen.edges, gen.nodes).scaling_vars]
    /\ data = parsed.data
    /\ scaling_vars = parsed.scaling_vars
    /\ ret = Returned("__init__", Life, None, NoMessage)

setting_pane_callback(search_text, size_topics_by) ==
    LET found == callback_search_graph(df, search_text)
        sized == callback_size_nodes(found.data, found.scaling_vars, size_topics_by)
    IN  /\ gen' = generate_data(df, search_text)
        /\ IF found.raised
           THEN /\ ret' = Raised("setting_pane_callback", search_text,
                                 size_topics_by, gen'.error)
                /\ UNCHANGED <<data, scaling_vars, parsed>>
           ELSE /\ scaling_vars' = found.scaling_vars
                /\ data' = sized
                /\ parsed' = IF gen'.kind = "graph"
                             THEN [search_text |-> search_text,
                                   data |-> found.data,
                                   scaling_vars |-> found.scaling_vars]
                             ELSE parsed
                /\ ret' = Returned("setting_pane_callback", search_text,
                                   size_topics_by, NoMessage)
        /\ df' = df_after_generate_data(df, search_text)
        /\ UNCHANGED <<hashseed, table>>

UpdateTotalRelatedTopics(search_text) ==
    /\ gen' = generate_data(df, search_text)
    /\ ret' = IF gen'.kind = "raise"
              THEN Raised("update_total_related_topics", search_text, None,
                          gen'.error)
              ELSE Returned("update_total_related_topics", search_text, None,
                            update_total_related_topics(search_text, gen'))
    /\ df' = df_after_generate_data(df, search_text)
    /\ UNCHANGED <<hashseed, table, data, scaling_vars, parsed>>

Next ==
    \/ \E search_text \in SearchTexts, size_topics_by \in SizeTopicsBy :
           setting_pane_callback(search_text, size_topics_by)
    \/ \E search_text \in SearchTexts : UpdateTotalRelatedTopics(search_text)

Spec == Init /\ [][Next]_vars

----------------------------------------------------------------------------
(* Vocabulary of the properties *)

TopicNames == {df[i].topic : i \in 1..Len(df)}

NodeIds(nodes) == {nodes[k].id : k \in 1..Len(nodes)}

\* the undirected pairs an edge list joins
Pairs(edges) == {{edges[k].from, edges[k].to} : k \in 1..Len(edges)}

Blank(q) == q = None \/ q = EmptyStr

\* the rows whose normalised name is the normalised query
Matching(q) == {i \in 1..Len(df) : clean(df[i].topic) = clean(q)}

Unmatched(q) == ~Blank(q) /\ Matching(q) = {}

CallbackReturned ==
    ret.handler = "setting_pane_callback" /\ ret.status = "returned"

\* a handler has run since the constructor
Called == ret.handler # "__init__"

\* the attribute a dropdown label selects
Method(size_topics_by) ==
    IF size_topics_by = NumberOfStories THEN "stories" ELSE "writers"

ValuesOf(nodes, col) == {nodes[k][col] : k \in 1..Len(nodes)}

Unsized(nodes) ==
    [k \in 1..Len(nodes) |->
        [nodes[k] EXCEPT !.size = Size(DEFAULT_NODE_SIZE, 1)]]

----------------------------------------------------------------------------
(* C1: for a non-empty query whose normalised form is the normalised name  *)
(* of a topic T, generate_data returns a node table whose ids are exactly  *)
(* T and those entries of T's related_topics that are topics of the        *)
(* dataset.                                                                *)
C1_NodesAreEgoNetwork ==
    \A T \in 1..Len(df) :
        (/\ Called
         /\ ~Blank(ret.search_text)
         /\ clean(ret.search_text) = clean(df[T].topic))
        => /\ gen.kind = "graph"
           /\ NodeIds(gen.nodes) =
                  {df[T].topic} \cup (Range(df[T].related_topics) \cap TopicNames)

(* C2: every edge's from and to, in the frames generate_data returns and   *)
(* in the payload parse_data builds, is the id of a node of the same       *)
(* graph.                                                                  *)
C2_EdgesReferenceNodes ==
    /\ (Called /\ gen.kind = "graph") =>
           \A k \in 1..Len(gen.edges) :
               /\ gen.edges[k].from \in NodeIds(gen.nodes)
               /\ gen.edges[k].to \in NodeIds(gen.nodes)
    /\ CallbackReturned =>
           \A k \in 1..Len(data.edges) :
               /\ data.edges[k].from \in NodeIds(data.nodes)
               /\ data.edges[k].to \in NodeIds(data.nodes)

\* the same outcome, and for a graph the same nodes and undirected edges
SameGraph(a, b) ==
    /\ a.kind = b.kind
    /\ NodeIds(a.nodes) = NodeIds(b.nodes)
    /\ Pairs(a.edges) = Pairs(b.edges)

(* C3: two non-empty queries with the same normalised form get the same    *)
(* node set and the same undirected edges from generate_data.              *)
C3_MatchingIsNormalised ==
    \A q \in SearchTexts :
        (/\ Called
         /\ ~Blank(q)
         /\ ~Blank(ret.search_text)
         /\ clean(q) = clean(ret.search_text))
        => SameGraph(generate_data(df, q), gen)

(* C4: in an edge list generate_data returns no unordered pair of topics   *)
(* appears twice; two topics that list each other are joined by exactly    *)
(* one edge.                                                               *)
C4_NoDuplicatePairs ==
    gen.kind = "graph" =>
        /\ \A j, k \in 1..Len(gen.edges) :
               j # k => {gen.edges[j].from, gen.edges[j].to}
                            # {gen.edges[k].from, gen.edges[k].to}
        /\ \A a, b \in 1..Len(df) :
               (/\ a # b
                /\ df[a].topic = ret.search_text
                /\ df[b].topic \in Range(df[a].related_topics)
                /\ df[a].topic \in Range(df[b].related_topics))
               => Cardinality({k \in 1..Len(gen.edges) :
                      {gen.edges[k].from, gen.edges[k].to}
                          = {df[a].topic, df[b].topic}}) = 1

\* the searched topic and one of its related topics list each other
C4_Witness ==
    /\ gen.kind = "graph"
    /\ ret.handler = "setting_pane_callback"
    /\ \E a, b \in 1..Len(df) :
           /\ a # b
           /\ df[a].topic = ret.search_text
           /\ df[b].topic \in Range(df[a].related_topics)
           /\ df[a].topic \in Range(df[b].related_topics)
    /\ Len(gen.nodes) = 2

(* C5: generate_data returns (None, None) and raises nothing for an empty  *)
(* or None query and for a non-empty query that matches no topic;          *)
(* update_total_related_topics answers "Type a topic you want to find."    *)
(* exactly for the former and "Topic not found." exactly for the latter.   *)
C5_NoSelectionAndNotFound ==
    Called =>
        /\ (Blank(ret.search_text) \/ Unmatched(ret.search_text))
               => (gen = NoneNone /\ ret.status = "returned")
        /\ ret.handler = "update_total_related_topics" =>
               /\ (ret.message.text = "Type a topic you want to find.")
                      <=> Blank(ret.search_text)
               /\ (ret.message.text = "Topic not found.")
                      <=> Unmatched(ret.search_text)

\* a search text that matches no topic was answered "Topic not found."
C5_Witness ==
    /\ ret.handler = "update_total_related_topics"
    /\ ret.search_text = Zen
    /\ gen = NoneNone
    /\ ret.message.text = "Topic not found."

(* C6: when an attribute is selected whose bounds are equal,               *)
(* callback_size_nodes sets every node's size to MIN_NODE_SIZE.            *)
C6_DegenerateBoundsGiveMinSize ==
    (/\ CallbackReturned
     /\ ret.size_topics_by # None
     /\ scaling_vars.node[Method(ret.size_topics_by)].min
            = scaling_vars.node[Method(ret.size_topics_by)].max)
    => \A k \in 1..Len(data.nodes) :
           /\ data.nodes[k].size.den > 0
           /\ data.nodes[k].size.num = MIN_NODE_SIZE * data.nodes[k].size.den

\* the row of the dataset a row of the table comes from
DfIndex(topic) == CHOOSE i \in 1..Len(df) : df[i].topic = topic

\* one table row per record, with the counters un-logged and rounded
C7_OneRowPerRecord ==
    /\ Len(table) = Len(df)
    /\ \A i \in 1..Len(df) :
           Cardinality({k \in 1..Len(table) : table[k] = TableRow(df[i])}) = 1

(* C7 as claimed: one row per record, by descending Stories, rows with     *)
(* equal Stories in the order of the dataset.                              *)
C7_StableDescending ==
    /\ C7_OneRowPerRecord
    /\ \A j, k \in 1..Len(table) :
           j < k => \/ table[j].Stories > table[k].Stories
                    \/ /\ table[j].Stories = table[k].Stories
                       /\ DfIndex(table[j].Topics) < DfIndex(table[k].Topics)

(* C7 (amended): preprocess_data returns one row per record, none dropped  *)
(* or duplicated, by non-increasing Stories; the order of rows with equal  *)
(* Stories is not fixed.                                                   *)
C7_Descending ==
    /\ C7_OneRowPerRecord
    /\ \A j, k \in 1..Len(table) :
           j < k => table[j].Stories >= table[k].Stories

\* three rows, the first of the dataset sorted last, the other two tied and
\* not in the order of the dataset
C7_Witness ==
    /\ Len(table) = 3
    /\ table[3].Topics = df[1].topic
    /\ table[1].Stories = table[2].Stories
    /\ table[2].Stories > table[3].Stories
    /\ DfIndex(table[1].Topics) > DfIndex(table[2].Topics)

StoredBoundsMatch ==
    \A col \in {"stories", "writers"} :
        /\ scaling_vars.node[col].min = MinOf(ValuesOf(data.nodes, col))
        /\ scaling_vars.node[col].max = MaxOf(ValuesOf(data.nodes, col))

\* The stored pair is what the last parse_data call built, resized: the
\* graph of the last call for which generate_data returned one (at first the
\* graph of Life) with the bounds of that same graph.
StoredPairIsLastBuilt ==
    /\ StoredBoundsMatch
    /\ Unsized(data.nodes) = parsed.data.nodes
    /\ data.edges = parsed.data.edges
    /\ scaling_vars = parsed.scaling_vars
    /\ (CallbackReturned /\ gen.kind = "graph") =>
           /\ parsed.search_text = ret.search_text
           /\ NodeIds(data.nodes) = NodeIds(gen.nodes)
           /\ Pairs(data.edges)
                  = {{astype_str(x) : x \in e} : e \in Pairs(gen.edges)}

(* C9: a setting_pane_callback call whose query is empty, None or not      *)
(* found returns the nodes and edges stored by the last call whose query   *)
(* matched a topic (at first the graph of Life) with the bounds of that    *)
(* graph; a call whose query matches a topic stores the new graph and its  *)
(* bounds; the stored bounds are always the min and max over the stored    *)
(* nodes.                                                                  *)
C9_StoredGraphAndBounds ==
    /\ StoredPairIsLastBuilt
    /\ (/\ ret.handler = "setting_pane_callback"
        /\ ~Blank(ret.search_text)
        /\ Matching(ret.search_text) # {})
       => /\ ret.status = "returned"
          /\ parsed.search_text = ret.search_text

(* C10: a returned call that selects an attribute whose bounds over the    *)
(* returned nodes satisfy min < max gives every node the size              *)
(* (value - min) * (MAX_NODE_SIZE - MIN_NODE_SIZE) / (max - min)           *)
(* + MIN_NODE_SIZE, which lies in [MIN_NODE_SIZE, MAX_NODE_SIZE]; a call   *)
(* that selects none gives every node DEFAULT_NODE_SIZE.                   *)
C10_SizesFollowSelection ==
    CallbackReturned =>
        IF ret.size_topics_by = None
        THEN \A k \in 1..Len(data.nodes) :
                 data.nodes[k].size = Size(DEFAULT_NODE_SIZE, 1)
        ELSE LET col == Method(ret.size_topics_by)
                 mn == MinOf(ValuesOf(data.nodes, col))
                 mx == MaxOf(ValuesOf(data.nodes, col))
             IN  mn < mx =>
                     \A k \in 1..Len(data.nodes) :
                         LET size == data.nodes[k].size
                             value == data.nodes[k][col]
                         IN  /\ size.den > 0
                             /\ size.num * (mx - mn) =
                                    ((value - mn) * (MAX_NODE_SIZE - MIN_NODE_SIZE)
                                        + MIN_NODE_SIZE * (mx - mn)) * size.den
                             /\ MIN_NODE_SIZE * size.den <= size.num
                             /\ size.num <= MAX_NODE_SIZE * size.den

\* a fallback call resized the stored graph, one node strictly between
C10_Witness ==
    /\ CallbackReturned
    /\ gen.kind = "none"
    /\ ret.size_topics_by = NumberOfStories
    /\ \E k \in 1..Len(data.nodes) :
           /\ data.nodes[k].size.den > 0
           /\ MIN_NODE_SIZE * data.nodes[k].size.den < data.nodes[k].size.num
           /\ data.nodes[k].size.num < MAX_NODE_SIZE * data.nodes[k].size.den

====
